---- MODULE Spec2Model ----
(***************************************************************************)
(* The STOMP client of src/client.rs: the ClientCodec (decode over a       *)
(* streaming read buffer, encode onto a write buffer) and the connection   *)
(* handshake driven through a Framed transport.                            *)
(*                                                                         *)
(* Bytes are one-character strings; NUL stands for the byte 0 and LF for   *)
(* the newline byte.  A buffer (BytesMut) is a sequence of bytes.          *)
(***************************************************************************)
EXTENDS Naturals, Integers, Sequences, FiniteSets, TLC

NUL == "NUL"
LF == "\n"
COLON == ":"
BACKSLASH == "\\"
COMMA == ","

Letters ==
  { "A", "B", "C", "D", "E", "F", "G", "H", "I", "J", "K", "L", "M",
    "N", "O", "P", "Q", "R", "S", "T", "U", "V", "W", "X", "Y", "Z",
    "a", "b", "c", "d", "e", "f", "g", "h", "i", "j", "k", "l", "m",
    "n", "o", "p", "q", "r", "s", "t", "u", "v", "w", "x", "y", "z" }

Digits == { "0", "1", "2", "3", "4", "5", "6", "7", "8", "9" }

DigitVal(c) ==
  CASE c = "0" -> 0 [] c = "1" -> 1 [] c = "2" -> 2 [] c = "3" -> 3
    [] c = "4" -> 4 [] c = "5" -> 5 [] c = "6" -> 6 [] c = "7" -> 7
    [] c = "8" -> 8 [] c = "9" -> 9

(* Option<T> *)
None == [some |-> FALSE, val |-> <<>>]
Some(v) == [some |-> TRUE, val |-> v]

(* --------------------------------------------------------------------- *)
(* Protocol vocabulary: inbound commands and the header names the typed   *)
(* inbound messages read.                                                 *)
(* --------------------------------------------------------------------- *)
CMD_CONNECTED == <<"C", "O", "N", "N", "E", "C", "T", "E", "D">>
CMD_MESSAGE == <<"M", "E", "S", "S", "A", "G", "E">>
CMD_RECEIPT == <<"R", "E", "C", "E", "I", "P", "T">>
CMD_ERROR == <<"E", "R", "R", "O", "R">>
CMD_SEND == <<"S", "E", "N", "D">>
CMD_CONNECT == <<"C", "O", "N", "N", "E", "C", "T">>
CMD_SUBSCRIBE == <<"S", "U", "B", "S", "C", "R", "I", "B", "E">>
CMD_UNSUBSCRIBE == <<"U", "N", "S", "U", "B", "S", "C", "R", "I", "B", "E">>
CMD_ACK == <<"A", "C", "K">>
CMD_NACK == <<"N", "A", "C", "K">>
CMD_BEGIN == <<"B", "E", "G", "I", "N">>
CMD_COMMIT == <<"C", "O", "M", "M", "I", "T">>
CMD_ABORT == <<"A", "B", "O", "R", "T">>
CMD_DISCONNECT == <<"D", "I", "S", "C", "O", "N", "N", "E", "C", "T">>

H_version == <<"v", "e", "r", "s", "i", "o", "n">>
H_session == <<"s", "e", "s", "s", "i", "o", "n">>
H_server == <<"s", "e", "r", "v", "e", "r">>
H_heart_beat == <<"h", "e", "a", "r", "t", "-", "b", "e", "a", "t">>
H_destination == <<"d", "e", "s", "t", "i", "n", "a", "t", "i", "o", "n">>
H_message_id == <<"m", "e", "s", "s", "a", "g", "e", "-", "i", "d">>
H_subscription == <<"s", "u", "b", "s", "c", "r", "i", "p", "t", "i", "o", "n">>
H_receipt_id == <<"r", "e", "c", "e", "i", "p", "t", "-", "i", "d">>
H_message == <<"m", "e", "s", "s", "a", "g", "e">>
H_accept_version == <<"a", "c", "c", "e", "p", "t", "-", "v", "e", "r", "s", "i", "o", "n">>
H_host == <<"h", "o", "s", "t">>
H_login == <<"l", "o", "g", "i", "n">>
H_passcode == <<"p", "a", "s", "s", "c", "o", "d", "e">>
H_id == <<"i", "d">>
H_ack == <<"a", "c", "k">>
H_transaction == <<"t", "r", "a", "n", "s", "a", "c", "t", "i", "o", "n">>
H_receipt == <<"r", "e", "c", "e", "i", "p", "t">>
H_content_length == <<"c", "o", "n", "t", "e", "n", "t", "-", "l", "e", "n", "g", "t", "h">>

(* --------------------------------------------------------------------- *)
(* Byte-sequence helpers.                                                 *)
(* --------------------------------------------------------------------- *)
(* Index of the first occurrence of byte c in b, 0 when there is none. *)
IndexOf(b, c) ==
  IF \E i \in 1..Len(b) : b[i] = c
    THEN CHOOSE i \in 1..Len(b) : b[i] = c /\ \A j \in 1..(i - 1) : b[j] # c
    ELSE 0

(* The bytes of b after its first n. *)
Drop(b, n) == SubSeq(b, n + 1, Len(b))

(* The first n bytes of b. *)
Take(b, n) == SubSeq(b, 1, n)

RECURSIVE SkipEOL(_)
SkipEOL(b) == IF b # <<>> /\ Head(b) = LF THEN SkipEOL(Tail(b)) ELSE b

RECURSIVE ParseNat(_)
(* The decimal value of a non-empty sequence of digits. *)
ParseNat(s) ==
  IF Len(s) = 1 THEN DigitVal(s[1])
  ELSE 10 * ParseNat(Take(s, Len(s) - 1)) + DigitVal(s[Len(s)])

DigitChar(d) ==
  CASE d = 0 -> "0" [] d = 1 -> "1" [] d = 2 -> "2" [] d = 3 -> "3" [] d = 4 -> "4"
    [] d = 5 -> "5" [] d = 6 -> "6" [] d = 7 -> "7" [] d = 8 -> "8" [] d = 9 -> "9"

RECURSIVE NatToStr(_)
(* The decimal digits of a natural number. *)
NatToStr(n) ==
  IF n < 10 THEN <<DigitChar(n)>> ELSE NatToStr(n \div 10) \o <<DigitChar(n % 10)>>

RECURSIVE Escape(_)
(* Header names and values on the wire: backslash, newline and colon are   *)
(* written as two-byte escapes.                                            *)
Escape(s) ==
  IF s = <<>> THEN <<>>
  ELSE (CASE Head(s) = BACKSLASH -> <<BACKSLASH, BACKSLASH>>
          [] Head(s) = LF -> <<BACKSLASH, "n">>
          [] Head(s) = COLON -> <<BACKSLASH, "c">>
          [] OTHER -> <<Head(s)>>) \o Escape(Tail(s))

(* what stands for an escape the wire format does not define *)
INVALID == "INVALID"

(* the byte a backslash followed by b stands for *)
Unescaped(b) ==
  CASE b = BACKSLASH -> BACKSLASH [] b = "n" -> LF [] b = "c" -> COLON [] OTHER -> INVALID

RECURSIVE Unescape(_)
(* The inverse of Escape; INVALID marks a backslash that starts no escape. *)
Unescape(s) ==
  IF s = <<>> THEN <<>>
  ELSE IF Head(s) # BACKSLASH THEN <<Head(s)>> \o Unescape(Tail(s))
  ELSE IF Len(s) < 2 THEN <<INVALID>>
  ELSE <<Unescaped(s[2])>> \o Unescape(Drop(s, 2))

IsValid(s) == \A k \in 1..Len(s) : s[k] # INVALID

(* --------------------------------------------------------------------- *)
(* Frame and the frame parser (frame::parse_frame).                       *)
(* --------------------------------------------------------------------- *)
Frame(command, headers, body) ==
  [command |-> command, headers |-> headers, body |-> body]

NoFrame == Frame(<<>>, <<>>, <<>>)

(* nom's IResult: Ok((remain, frame)), Err(Incomplete), Err(Error/Failure) *)
ParseOk(frame, remain) == [kind |-> "Ok", frame |-> frame, remain |-> remain]
ParseIncomplete == [kind |-> "Incomplete", frame |-> NoFrame, remain |-> <<>>]
ParseError == [kind |-> "Error", frame |-> NoFrame, remain |-> <<>>]

(* The command line: letters up to a newline. *)
ParseCommand(b) ==
  LET i == IndexOf(b, LF) IN
    IF i = 0
      THEN IF \A k \in 1..Len(b) : b[k] \in Letters
             THEN [kind |-> "Incomplete", command |-> <<>>, rest |-> <<>>]
             ELSE [kind |-> "Error", command |-> <<>>, rest |-> <<>>]
      ELSE IF i > 1 /\ \A k \in 1..(i - 1) : b[k] \in Letters
             THEN [kind |-> "Ok", command |-> Take(b, i - 1), rest |-> Drop(b, i)]
             ELSE [kind |-> "Error", command |-> <<>>, rest |-> <<>>]

RECURSIVE ParseHeaders(_)
(* Header lines name:value up to the blank line; the name ends at the     *)
(* first colon of the line, and both parts are unescaped.                 *)
ParseHeaders(b) ==
  IF b = <<>> THEN [kind |-> "Incomplete", headers |-> <<>>, rest |-> <<>>]
  ELSE IF Head(b) = LF THEN [kind |-> "Ok", headers |-> <<>>, rest |-> Tail(b)]
  ELSE
    LET i == IndexOf(b, LF) IN
      IF i = 0 THEN [kind |-> "Incomplete", headers |-> <<>>, rest |-> <<>>]
      ELSE
        LET line == Take(b, i - 1)
            c == IndexOf(line, COLON)
        IN IF c <= 1 \/ ~IsValid(Unescape(line))
             THEN [kind |-> "Error", headers |-> <<>>, rest |-> <<>>]
           ELSE
             LET more == ParseHeaders(Drop(b, i)) IN
               IF more.kind # "Ok" THEN more
               ELSE [kind |-> "Ok",
                     headers |-> <<<<Unescape(Take(line, c - 1)), Unescape(Drop(line, c))>>>>
                                   \o more.headers,
                     rest |-> more.rest]

(* The value of the first header called name. *)
get_header(headers, name) ==
  IF \E i \in 1..Len(headers) : headers[i][1] = name
    THEN Some(headers[CHOOSE i \in 1..Len(headers) :
                        /\ headers[i][1] = name
                        /\ \A j \in 1..(i - 1) : headers[j][1] # name][2])
    ELSE None

(* The body: content-length bytes when that header is present, else the   *)
(* bytes up to the next NUL; then the NUL terminator.  Fewer bytes than    *)
(* the declared length plus the terminator is "need more data"; a byte     *)
(* other than NUL where the terminator must be is a failure.               *)
ParseBody(headers, b) ==
  LET cl == get_header(headers, H_content_length) IN
    IF cl.some
      THEN IF cl.val = <<>> \/ \E k \in 1..Len(cl.val) : cl.val[k] \notin Digits
             THEN [kind |-> "Error", body |-> <<>>, rest |-> <<>>]
             ELSE LET n == ParseNat(cl.val) IN
                    IF Len(b) < n + 1
                      THEN [kind |-> "Incomplete", body |-> <<>>, rest |-> <<>>]
                    ELSE IF b[n + 1] # NUL
                      THEN [kind |-> "Error", body |-> <<>>, rest |-> <<>>]
                    ELSE [kind |-> "Ok", body |-> Take(b, n), rest |-> Drop(b, n + 1)]
      ELSE LET i == IndexOf(b, NUL) IN
             IF i = 0 THEN [kind |-> "Incomplete", body |-> <<>>, rest |-> <<>>]
             ELSE [kind |-> "Ok", body |-> Take(b, i - 1), rest |-> Drop(b, i)]

(* One frame from the front of the buffered bytes; end-of-line bytes left *)
(* after the previous frame's NUL are skipped first.                      *)
parse_frame(input) ==
  LET c == ParseCommand(SkipEOL(input)) IN
    IF c.kind = "Incomplete" THEN ParseIncomplete
    ELSE IF c.kind = "Error" THEN ParseError
    ELSE LET h == ParseHeaders(c.rest) IN
      IF h.kind = "Incomplete" THEN ParseIncomplete
      ELSE IF h.kind = "Error" THEN ParseError
      ELSE LET d == ParseBody(h.headers, h.rest) IN
        IF d.kind = "Incomplete" THEN ParseIncomplete
        ELSE IF d.kind = "Error" THEN ParseError
        ELSE ParseOk(Frame(c.command, h.headers, d.body), d.rest)

(* --------------------------------------------------------------------- *)
(* Message<FromServer> and Message::<FromServer>::from_frame.             *)
(* --------------------------------------------------------------------- *)
Message(content, extra_headers) ==
  [content |-> content, extra_headers |-> extra_headers]

NoMessage == Message([type |-> "none"], <<>>)

ConvOk(msg) == [ok |-> TRUE, msg |-> msg]
ConvErr == [ok |-> FALSE, msg |-> NoMessage]

(* The headers of a frame whose names are not in known, in frame order. *)
ExtraHeaders(headers, known) ==
  SelectSeq(headers, LAMBDA h : h[1] \notin known)

from_frame(frame) ==
  LET h == frame.headers
      eh(n) == get_header(h, n)
  IN
    IF frame.command = CMD_CONNECTED THEN
      IF eh(H_version).some
        THEN ConvOk(Message([type |-> "Connected",
                             version |-> eh(H_version).val,
                             session |-> eh(H_session),
                             server |-> eh(H_server),
                             heartbeat |-> eh(H_heart_beat)],
                            ExtraHeaders(h, {H_version, H_session, H_server, H_heart_beat})))
        ELSE ConvErr
    ELSE IF frame.command = CMD_MESSAGE THEN
      IF eh(H_destination).some /\ eh(H_message_id).some /\ eh(H_subscription).some
        THEN ConvOk(Message([type |-> "Message",
                             destination |-> eh(H_destination).val,
                             message_id |-> eh(H_message_id).val,
                             subscription |-> eh(H_subscription).val,
                             body |-> frame.body],
                            ExtraHeaders(h, {H_destination, H_message_id, H_subscription,
                                             H_content_length})))
        ELSE ConvErr
    ELSE IF frame.command = CMD_RECEIPT THEN
      IF eh(H_receipt_id).some
        THEN ConvOk(Message([type |-> "Receipt", receipt_id |-> eh(H_receipt_id).val],
                            ExtraHeaders(h, {H_receipt_id})))
        ELSE ConvErr
    ELSE IF frame.command = CMD_ERROR THEN
      ConvOk(Message([type |-> "Error", message |-> eh(H_message), body |-> frame.body],
                     ExtraHeaders(h, {H_message, H_content_length})))
    ELSE ConvErr

(* --------------------------------------------------------------------- *)
(* ClientCodec::decode.  Returns the call's result (Ok(None), Ok(Some),   *)
(* Err) together with the buffer as the call leaves it.                   *)
(* --------------------------------------------------------------------- *)
DecodeResult(tag, item, src, offset) ==
  [tag |-> tag, item |-> item, src |-> src, offset |-> offset]

(* decode with the buffer emptied when the frame is incomplete *)
decode_clear_on_incomplete(src) ==
  LET p == parse_frame(src) IN
    IF p.kind = "Incomplete" THEN DecodeResult("None", NoMessage, <<>>, Len(src))
    ELSE IF p.kind = "Error" THEN DecodeResult("ParseFailed", NoMessage, src, 0)
    ELSE
      LET item == from_frame(p.frame)
          offset == Len(src) - Len(p.remain)
          advanced == Drop(src, offset)
      IN IF item.ok THEN DecodeResult("Some", item.msg, advanced, offset)
         ELSE DecodeResult("ConvFailed", NoMessage, advanced, offset)

(* decode advancing by the length of the remainder, not up to its start *)
decode_offset_of_remain(src) ==
  LET p == parse_frame(src) IN
    IF p.kind = "Incomplete" THEN DecodeResult("None", NoMessage, src, 0)
    ELSE IF p.kind = "Error" THEN DecodeResult("ParseFailed", NoMessage, src, 0)
    ELSE
      LET item == from_frame(p.frame)
          offset == Len(p.remain)
          advanced == Drop(src, offset)
      IN IF item.ok THEN DecodeResult("Some", item.msg, advanced, offset)
         ELSE DecodeResult("ConvFailed", NoMessage, advanced, offset)

(* decode advancing past everything buffered once a frame was parsed *)
decode_advance_all(src) ==
  LET p == parse_frame(src) IN
    IF p.kind = "Incomplete" THEN DecodeResult("None", NoMessage, src, 0)
    ELSE IF p.kind = "Error" THEN DecodeResult("ParseFailed", NoMessage, src, 0)
    ELSE
      LET item == from_frame(p.frame)
          offset == Len(src)
          advanced == Drop(src, offset)
      IN IF item.ok THEN DecodeResult("Some", item.msg, advanced, offset)
         ELSE DecodeResult("ConvFailed", NoMessage, advanced, offset)

(* decode dropping the first buffered byte when the frame is incomplete *)
decode_skip_on_incomplete(src) ==
  LET p == parse_frame(src) IN
    IF p.kind = "Incomplete"
      THEN DecodeResult("None", NoMessage, Drop(src, 1), IF src = <<>> THEN 0 ELSE 1)
    ELSE IF p.kind = "Error" THEN DecodeResult("ParseFailed", NoMessage, src, 0)
    ELSE
      LET item == from_frame(p.frame)
          offset == Len(src) - Len(p.remain)
          advanced == Drop(src, offset)
      IN IF item.ok THEN DecodeResult("Some", item.msg, advanced, offset)
         ELSE DecodeResult("ConvFailed", NoMessage, advanced, offset)

(* decode reporting an incomplete frame as a failure *)
decode_incomplete_is_error(src) ==
  LET p == parse_frame(src) IN
    IF p.kind # "Ok" THEN DecodeResult("ParseFailed", NoMessage, src, 0)
    ELSE
      LET item == from_frame(p.frame)
          offset == Len(src) - Len(p.remain)
          advanced == Drop(src, offset)
      IN IF item.ok THEN DecodeResult("Some", item.msg, advanced, offset)
         ELSE DecodeResult("ConvFailed", NoMessage, advanced, offset)

(* decode resynchronising after a malformed frame: it skips to the byte   *)
(* after the next NUL and reports no item                                 *)
decode_resync_on_error(src) ==
  LET p == parse_frame(src) IN
    IF p.kind = "Incomplete" THEN DecodeResult("None", NoMessage, src, 0)
    ELSE IF p.kind = "Error"
      THEN LET n == IF IndexOf(src, NUL) = 0 THEN Len(src) ELSE IndexOf(src, NUL)
           IN DecodeResult("None", NoMessage, Drop(src, n), n)
    ELSE
      LET item == from_frame(p.frame)
          offset == Len(src) - Len(p.remain)
          advanced == Drop(src, offset)
      IN IF item.ok THEN DecodeResult("Some", item.msg, advanced, offset)
         ELSE DecodeResult("ConvFailed", NoMessage, advanced, offset)

(* decode dropping a frame that converts to no inbound message *)
decode_drop_invalid(src) ==
  LET p == parse_frame(src) IN
    IF p.kind = "Incomplete" THEN DecodeResult("None", NoMessage, src, 0)
    ELSE IF p.kind = "Error" THEN DecodeResult("ParseFailed", NoMessage, src, 0)
    ELSE
      LET item == from_frame(p.frame)
          offset == Len(src) - Len(p.remain)
          advanced == Drop(src, offset)
      IN IF item.ok THEN DecodeResult("Some", item.msg, advanced, offset)
         ELSE DecodeResult("None", NoMessage, advanced, offset)

(* decode returning the conversion error before the buffer is advanced *)
decode_keep_on_conv_error(src) ==
  LET p == parse_frame(src) IN
    IF p.kind = "Incomplete" THEN DecodeResult("None", NoMessage, src, 0)
    ELSE IF p.kind = "Error" THEN DecodeResult("ParseFailed", NoMessage, src, 0)
    ELSE
      LET item == from_frame(p.frame)
          offset == Len(src) - Len(p.remain)
          advanced == Drop(src, offset)
      IN IF item.ok THEN DecodeResult("Some", item.msg, advanced, offset)
         ELSE DecodeResult("ConvFailed", NoMessage, src, 0)

(* decode cutting the buffer down to its first offset bytes *)
decode_truncate(src) ==
  LET p == parse_frame(src) IN
    IF p.kind = "Incomplete" THEN DecodeResult("None", NoMessage, src, 0)
    ELSE IF p.kind = "Error" THEN DecodeResult("ParseFailed", NoMessage, src, 0)
    ELSE
      LET item == from_frame(p.frame)
          offset == Len(src) - Len(p.remain)
          advanced == Take(src, offset)
      IN IF item.ok THEN DecodeResult("Some", item.msg, advanced, offset)
         ELSE DecodeResult("ConvFailed", NoMessage, advanced, offset)

(* decode returning the message with the buffer left as it was *)
decode_no_advance(src) ==
  LET p == parse_frame(src) IN
    IF p.kind = "Incomplete" THEN DecodeResult("None", NoMessage, src, 0)
    ELSE IF p.kind = "Error" THEN DecodeResult("ParseFailed", NoMessage, src, 0)
    ELSE
      LET item == from_frame(p.frame)
          offset == Len(src) - Len(p.remain)
          advanced == Drop(src, offset)
      IN IF item.ok THEN DecodeResult("Some", item.msg, src, 0)
         ELSE DecodeResult("ConvFailed", NoMessage, advanced, offset)

decode(src) ==
  LET p == parse_frame(src) IN
    IF p.kind = "Incomplete" THEN DecodeResult("None", NoMessage, src, 0)
    ELSE IF p.kind = "Error" THEN DecodeResult("ParseFailed", NoMessage, src, 0)
    ELSE
      LET item == from_frame(p.frame)
          offset == Len(src) - Len(p.remain)
          advanced == Drop(src, offset)
      IN IF item.ok THEN DecodeResult("Some", item.msg, advanced, offset)
         ELSE DecodeResult("ConvFailed", NoMessage, advanced, offset)

(* --------------------------------------------------------------------- *)
(* Message<ToServer>::to_frame, Frame::serialize and ClientCodec::encode. *)
(* --------------------------------------------------------------------- *)
(* <<name, value>> when the optional field is present, nothing otherwise *)
OptHeader(name, opt) == IF opt.some THEN <<<<name, opt.val>>>> ELSE <<>>

(* heart-beat: the pair (send, receive) written "send,receive" *)
HeartbeatHeader(opt) ==
  IF opt.some
    THEN <<<<H_heart_beat, NatToStr(opt.val[1]) \o <<COMMA>> \o NatToStr(opt.val[2])>>>>
    ELSE <<>>

(* content-length for a body that is present *)
BodyHeader(opt) ==
  IF opt.some THEN <<<<H_content_length, NatToStr(Len(opt.val))>>>> ELSE <<>>

BodyBytes(opt) == IF opt.some THEN opt.val ELSE <<>>

(* The typed headers of each variant come first, in a fixed order, then    *)
(* the message's extra_headers as they are.                                *)
to_frame(msg) ==
  LET c == msg.content
      x == msg.extra_headers
  IN
    CASE c.type = "Connect" ->
      Frame(CMD_CONNECT,
            <<<<H_accept_version, c.accept_version>>, <<H_host, c.host>>>>
              \o OptHeader(H_login, c.login)
              \o OptHeader(H_passcode, c.passcode)
              \o HeartbeatHeader(c.heartbeat)
              \o x,
            <<>>)
    [] c.type = "Send" ->
      Frame(CMD_SEND,
            <<<<H_destination, c.destination>>>>
              \o OptHeader(H_transaction, c.transaction)
              \o BodyHeader(c.body)
              \o x,
            BodyBytes(c.body))
    [] c.type = "Subscribe" ->
      Frame(CMD_SUBSCRIBE,
            <<<<H_destination, c.destination>>, <<H_id, c.id>>>>
              \o OptHeader(H_ack, c.ack) \o x,
            <<>>)
    [] c.type = "Unsubscribe" -> Frame(CMD_UNSUBSCRIBE, <<<<H_id, c.id>>>> \o x, <<>>)
    [] c.type = "Ack" ->
      Frame(CMD_ACK, <<<<H_id, c.id>>>> \o OptHeader(H_transaction, c.transaction) \o x, <<>>)
    [] c.type = "Nack" ->
      Frame(CMD_NACK, <<<<H_id, c.id>>>> \o OptHeader(H_transaction, c.transaction) \o x, <<>>)
    [] c.type = "Begin" -> Frame(CMD_BEGIN, <<<<H_transaction, c.transaction>>>> \o x, <<>>)
    [] c.type = "Commit" -> Frame(CMD_COMMIT, <<<<H_transaction, c.transaction>>>> \o x, <<>>)
    [] c.type = "Abort" -> Frame(CMD_ABORT, <<<<H_transaction, c.transaction>>>> \o x, <<>>)
    [] c.type = "Disconnect" ->
      Frame(CMD_DISCONNECT, OptHeader(H_receipt, c.receipt) \o x, <<>>)

RECURSIVE SerializeHeaders(_)
SerializeHeaders(headers) ==
  IF headers = <<>> THEN <<>>
  ELSE Escape(Head(headers)[1]) \o <<COLON>> \o Escape(Head(headers)[2]) \o <<LF>>
         \o SerializeHeaders(Tail(headers))

(* the wire bytes of a frame, appended to dst *)
serialize(frame, dst) ==
  dst \o frame.command \o <<LF>> \o SerializeHeaders(frame.headers) \o <<LF>>
      \o frame.body \o <<NUL>>

(* encode writing the frame over what dst holds *)
encode_overwrite(item, dst) == serialize(to_frame(item), <<>>)

(* encode serialising the content alone, without the extra headers *)
encode_content_only(item, dst) == serialize(to_frame(Message(item.content, <<>>)), dst)

(* ClientCodec::encode: always Ok(()); the value is dst as the call leaves it *)
encode(item, dst) == serialize(to_frame(item), dst)

(* the value ClientCodec::encode returns *)
encode_returns(item) == "Ok"

(* --------------------------------------------------------------------- *)
(* The handshake: what client_handshake and client_handshake_tls build    *)
(* and how they judge the reply.                                          *)
(* --------------------------------------------------------------------- *)
VERSION_1_2 == <<"1", ".", "2">>

(* the Connect message with the passcode left out *)
client_handshake_connect_no_passcode(address, login, passcode) ==
  Message([type |-> "Connect", accept_version |-> VERSION_1_2, host |-> address,
           login |-> login, passcode |-> None, heartbeat |-> None], <<>>)

client_handshake_connect(address, login, passcode) ==
  Message([type |-> "Connect", accept_version |-> VERSION_1_2, host |-> address,
           login |-> login, passcode |-> passcode, heartbeat |-> None], <<>>)

client_handshake_tls_connect(address, login, passcode) ==
  Message([type |-> "Connect", accept_version |-> VERSION_1_2, host |-> address,
           login |-> login, passcode |-> passcode, heartbeat |-> None], <<>>)

(* a reply that any present message satisfies *)
client_handshake_reply_any(msg) ==
  IF msg.some THEN "Ok" ELSE "Err"

(* msg is what transport.next().await.transpose()? gave: None at the end   *)
(* of the stream, Some(message) otherwise                                  *)
client_handshake_reply(msg) ==
  IF msg.some /\ msg.val.content.type = "Connected" THEN "Ok" ELSE "Err"

client_handshake_tls_reply(msg) ==
  IF msg.some /\ msg.val.content.type = "Connected" THEN "Ok" ELSE "Err"

(* connect and connect_tls hand the transport to the caller exactly when   *)
(* the handshake returned Ok: `client_handshake(..).await?; Ok(transport)` *)
connect_returns_always(result) == TRUE

connect_returns(result) == result = "Ok"

connect_tls_returns(result) == result = "Ok"

(* --------------------------------------------------------------------- *)
(* Inbound byte streams the transport may deliver.                        *)
(* --------------------------------------------------------------------- *)
Hdr(name, value) == name \o <<COLON>> \o value \o <<LF>>

F_CONNECTED == CMD_CONNECTED \o <<LF>> \o Hdr(H_version, <<"1", ".", "2">>) \o <<LF, NUL>>
F_ERROR ==
  CMD_ERROR \o <<LF>> \o Hdr(H_message, <<"b", "a", "d", " ", "l", "o", "g", "i", "n">>)
    \o <<LF, NUL>>
F_RECEIPT == CMD_RECEIPT \o <<LF>> \o Hdr(H_receipt_id, <<"7">>) \o <<LF, NUL>>
(* a body holding a NUL byte, delimited by content-length *)
F_MESSAGE_CL ==
  CMD_MESSAGE \o <<LF>> \o Hdr(H_destination, <<"q">>) \o Hdr(H_message_id, <<"1">>)
    \o Hdr(H_subscription, <<"0">>) \o Hdr(H_content_length, <<"3">>)
    \o <<LF, "a", NUL, "b", NUL>>
(* a NUL-delimited body, an extra header and a repeated header *)
F_MESSAGE ==
  CMD_MESSAGE \o <<LF>> \o Hdr(H_subscription, <<"0">>) \o Hdr(<<"x">>, <<"y">>)
    \o Hdr(H_message_id, <<"1">>) \o Hdr(H_destination, <<"q">>)
    \o Hdr(H_destination, <<"r">>) \o <<LF, "h", "i", NUL>>

(* violations of the framing grammar *)
F_BADHEADER == CMD_SEND \o <<LF, "b", "a", "d", "h", "e", "a", "d", "e", "r", LF, LF, NUL>>
F_BADCOMMAND == <<"S", "E", "1", "D", LF, LF, NUL>>
F_BADLENGTH == CMD_ERROR \o <<LF>> \o Hdr(H_content_length, <<"1">>) \o <<LF, "a", "b", NUL>>

(* well-framed, but no valid inbound message *)
F_SEND == CMD_SEND \o <<LF>> \o Hdr(H_destination, <<"q">>) \o <<LF, NUL>>
F_CONNECTED_NOVERSION == CMD_CONNECTED \o <<LF>> \o Hdr(H_server, <<"s">>) \o <<LF, NUL>>
F_RECEIPT_NOID == CMD_RECEIPT \o <<LF, LF, NUL>>

ValidFrames == { F_CONNECTED, F_ERROR, F_RECEIPT, F_MESSAGE_CL, F_MESSAGE }
MalformedFrames == { F_BADHEADER, F_BADCOMMAND, F_BADLENGTH }
InvalidMessageFrames == { F_SEND, F_CONNECTED_NOVERSION, F_RECEIPT_NOID }
Frames == ValidFrames \cup MalformedFrames \cup InvalidMessageFrames

(* Streams of up to two frames; the server may end a frame with an EOL. *)
ValidSecondFrames == { F_RECEIPT, F_MESSAGE_CL }
TwoFrameWires == { f \o g : f \in ValidFrames, g \in ValidSecondFrames }
ValidWires ==
  ValidFrames
    \cup TwoFrameWires
    \cup { f \o <<LF>> \o g : f \in { F_CONNECTED, F_MESSAGE }, g \in { F_RECEIPT, F_ERROR } }
    \cup { F_RECEIPT \o <<LF>> }
Wires ==
  ValidWires
    \cup MalformedFrames
    \cup InvalidMessageFrames
    \cup { f \o g : f \in ValidFrames, g \in { F_BADHEADER, F_SEND } }
    \cup { f \o g : f \in InvalidMessageFrames, g \in { F_RECEIPT, F_BADHEADER, F_SEND } }

(* The largest number of bytes one read of the transport appends, unless  *)
(* it delivers everything that is left at once.                           *)
MaxChunk == 3

(* --------------------------------------------------------------------- *)
(* State.                                                                 *)
(* --------------------------------------------------------------------- *)
VARIABLES
  wire,      \* the bytes the peer sends on this connection, in order
  fed,       \* how many of them the transport has appended to buf so far
  buf,       \* the codec's streaming read buffer (src: &mut BytesMut)
  removed,   \* the bytes decode has advanced past so far, in order
  out,       \* the messages decode has returned so far, in order
  last,      \* the most recent decode call: its buffer before, its result
  sawPartial, \* some decode call so far found a non-empty, incomplete buffer
  cancelled, \* a receive waiting for the rest of a frame was abandoned
  pc,        \* where connect / connect_tls stands: "codec" when only the codec runs
  tls,       \* TRUE for connect_tls, FALSE for connect
  address,   \* the caller's address argument
  login,     \* the caller's login argument (Option)
  passcode,  \* the caller's passcode argument (Option)
  sentMsgs,  \* the messages handed to transport.send so far
  written,   \* the bytes written to the transport so far
  isReadable, \* Framed's read state: the buffer may hold a frame
  eof,       \* Framed's read state: the transport reported end of stream
  reply,     \* what transport.next() resolved to
  result,    \* what connect / connect_tls came to: "none" while running
  error,     \* the cause of an "Err" result
  returned   \* the transport was returned to the caller as a connection

codecVars == <<buf, removed, out, last, sawPartial, cancelled>>
argVars == <<tls, address, login, passcode>>
hsVars == <<pc, argVars, sentMsgs, written, isReadable, eof, reply, result, error, returned>>
vars == <<wire, fed, codecVars, hsVars>>

NoReply == [kind |-> "pending", msg |-> None, cause |-> ""]

NoCall ==
  [called |-> FALSE, fedAt |-> 0, before |-> <<>>, outBefore |-> <<>>, tag |-> "None",
   item |-> NoMessage, offset |-> 0]

Init ==
  /\ wire \in Wires
  /\ fed = 0
  /\ buf = <<>>
  /\ removed = <<>>
  /\ out = <<>>
  /\ last = NoCall
  /\ sawPartial = FALSE
  /\ cancelled = FALSE
  /\ pc = "codec"
  /\ tls = FALSE
  /\ address = <<>>
  /\ login = None
  /\ passcode = None
  /\ sentMsgs = <<>>
  /\ written = <<>>
  /\ isReadable = FALSE
  /\ eof = FALSE
  /\ reply = NoReply
  /\ result = "none"
  /\ error = ""
  /\ returned = FALSE

(* The transport appends the next n bytes of the stream to the buffer. *)
Receive(n) ==
  /\ pc = "codec"
  /\ n >= 1
  /\ fed + n <= Len(wire)
  /\ buf' = buf \o SubSeq(wire, fed + 1, fed + n)
  /\ fed' = fed + n
  /\ UNCHANGED <<wire, removed, out, last, sawPartial, cancelled, hsVars>>

ReceiveChunk == \E n \in 1..MaxChunk : Receive(n)

ReceiveRest == Receive(Len(wire) - fed)

(* The effect on the codec's state of a decode call with result r. *)
Decoded(r) ==
  /\ buf' = r.src
  /\ removed' = removed \o Take(buf, r.offset)
  /\ out' = IF r.tag = "Some" THEN Append(out, r.item) ELSE out
  /\ last' = [called |-> TRUE, fedAt |-> fed, before |-> buf, outBefore |-> out,
              tag |-> r.tag, item |-> r.item, offset |-> r.offset]
  /\ sawPartial' = (sawPartial \/ (r.tag = "None" /\ buf # <<>>))
  /\ UNCHANGED cancelled

(* One call of ClientCodec::decode on the buffer. *)
Decode ==
  /\ pc = "codec"
  /\ Decoded(decode(buf))
  /\ UNCHANGED <<wire, fed, hsVars>>

(* the caller abandoning a receive dropped the buffer with it *)
Cancel_drops_buffer ==
  /\ pc = "codec"
  /\ last.called
  /\ last.fedAt = fed
  /\ last.tag = "None"
  /\ buf # <<>>
  /\ cancelled' = TRUE
  /\ buf' = <<>>
  /\ UNCHANGED <<wire, fed, removed, out, last, sawPartial, hsVars>>

(* The caller abandons a receive that waits for the rest of a frame:      *)
(* decode returned Ok(None) on a non-empty buffer and no byte has come    *)
(* since.  ClientCodec has no fields and decode keeps nothing between     *)
(* calls; the buffer belongs to the Framed transport, not to the receive. *)
Cancel ==
  /\ pc = "codec"
  /\ last.called
  /\ last.fedAt = fed
  /\ last.tag = "None"
  /\ buf # <<>>
  /\ cancelled' = TRUE
  /\ UNCHANGED <<wire, fed, buf, removed, out, last, sawPartial, hsVars>>

Next == ReceiveChunk \/ ReceiveRest \/ Decode \/ Cancel

Spec == Init /\ [][Next]_vars

(* --------------------------------------------------------------------- *)
(* connect / connect_tls: transport set-up, then the handshake through    *)
(* the Framed transport.                                                  *)
(* --------------------------------------------------------------------- *)
ADDR_A == <<"a", ":", "1">>
ADDR_B == <<"b", ".", "c", ":", "2">>
Addresses == { ADDR_A, ADDR_B }
Logins == { None, Some(<<"u">>) }
Passcodes == { None, Some(<<"p", "w">>) }

(* What the server sends back; the stream may end anywhere. *)
HsWires ==
  { <<>>, F_CONNECTED, F_ERROR, F_RECEIPT, F_BADHEADER, F_CONNECTED_NOVERSION, F_SEND,
    <<LF>> \o F_CONNECTED, F_CONNECTED \o F_MESSAGE_CL, F_ERROR \o F_CONNECTED }

HsInit ==
  /\ wire \in HsWires
  /\ fed = 0
  /\ buf = <<>>
  /\ removed = <<>>
  /\ out = <<>>
  /\ last = NoCall
  /\ sawPartial = FALSE
  /\ cancelled = FALSE
  /\ pc = "setup"
  /\ tls \in BOOLEAN
  /\ address \in Addresses
  /\ login \in Logins
  /\ passcode \in Passcodes
  /\ sentMsgs = <<>>
  /\ written = <<>>
  /\ isReadable = FALSE
  /\ eof = FALSE
  /\ reply = NoReply
  /\ result = "none"
  /\ error = ""
  /\ returned = FALSE

(* connect / connect_tls starting the handshake over when it fails *)
Return_retry(res, cause) ==
  /\ pc' = IF res = "Err" /\ cause # "setup" THEN "send" ELSE "done"
  /\ result' = res
  /\ error' = cause
  /\ returned' = IF tls THEN connect_tls_returns(res) ELSE connect_returns(res)

(* connect / connect_tls return res; cause says why when res is an error *)
Return(res, cause) ==
  /\ pc' = "done"
  /\ result' = res
  /\ error' = cause
  /\ returned' = IF tls THEN connect_tls_returns(res) ELSE connect_returns(res)

(* connect, up to the Framed transport: resolving the address panics on    *)
(* failure (unwrap), TcpStream::connect may fail.                          *)
connect_setup ==
  /\ pc = "setup"
  /\ ~tls
  /\ \E outcome \in { "ok", "err", "panic" } :
       IF outcome = "ok"
         THEN /\ pc' = "send"
              /\ UNCHANGED <<result, error, returned>>
         ELSE Return(IF outcome = "err" THEN "Err" ELSE "Panic", "setup")
  /\ UNCHANGED <<wire, fed, codecVars, argVars, sentMsgs, written, isReadable, eof, reply>>

(* connect_tls, up to the Framed transport: resolving the address, building *)
(* the connector, TcpStream::connect and the TLS session may each fail; an  *)
(* address resolving to nothing panics (unwrap).                            *)
connect_tls_setup ==
  /\ pc = "setup"
  /\ tls
  /\ \E outcome \in { "ok", "err", "panic" } :
       IF outcome = "ok"
         THEN /\ pc' = "send"
              /\ UNCHANGED <<result, error, returned>>
         ELSE Return(IF outcome = "err" THEN "Err" ELSE "Panic", "setup")
  /\ UNCHANGED <<wire, fed, codecVars, argVars, sentMsgs, written, isReadable, eof, reply>>

(* The Connect message the running handshake builds. *)
ConnectMessage ==
  IF tls THEN client_handshake_tls_connect(address, login, passcode)
  ELSE client_handshake_connect(address, login, passcode)

(* the handshake going on to read with the Connect message only queued:   *)
(* encoded, but not flushed to the transport                              *)
HandshakeSend_feed_only ==
  /\ pc = "send"
  /\ sentMsgs' = Append(sentMsgs, ConnectMessage)
  /\ pc' = "recv"
  /\ UNCHANGED <<wire, fed, codecVars, argVars, written, isReadable, eof, reply,
                 result, error, returned>>

(* transport.send(connect).await?: the message is encoded onto the write   *)
(* buffer and the buffer flushed to the transport.  A failing transport    *)
(* has taken some strict prefix of the bytes; the handshake returns the    *)
(* error.                                                                  *)
HandshakeSend ==
  /\ pc = "send"
  /\ sentMsgs' = Append(sentMsgs, ConnectMessage)
  /\ LET bytes == encode(ConnectMessage, <<>>) IN
       \/ /\ written' = written \o bytes
          /\ pc' = "recv"
          /\ UNCHANGED <<result, error, returned>>
       \/ /\ \E k \in 0..(Len(bytes) - 1) : written' = written \o Take(bytes, k)
          /\ Return("Err", "send")
  /\ UNCHANGED <<wire, fed, codecVars, argVars, isReadable, eof, reply>>

(* the handshake taking a failed read for the end of the stream *)
Resolve_error_as_end(r) ==
  /\ reply' = r
  /\ LET res == IF tls THEN client_handshake_tls_reply(r.msg)
                 ELSE client_handshake_reply(r.msg)
     IN Return(res, IF res = "Ok" THEN "" ELSE "unexpected reply")

(* transport.next() resolved to r; the rest of the handshake and of       *)
(* connect runs to its return.                                            *)
Resolve(r) ==
  /\ reply' = r
  /\ IF r.kind = "err"
       THEN Return("Err", r.cause)
       ELSE LET res == IF tls THEN client_handshake_tls_reply(r.msg)
                       ELSE client_handshake_reply(r.msg)
            IN Return(res, IF res = "Ok" THEN "" ELSE "unexpected reply")

ReplyMsg(m) == [kind |-> "msg", msg |-> Some(m), cause |-> ""]
ReplyNone == [kind |-> "none", msg |-> None, cause |-> ""]
ReplyErr(cause) == [kind |-> "err", msg |-> None, cause |-> cause]

(* Framed's read loop, the buffer readable and the stream not ended: one   *)
(* decode call; a frame or an error resolves next(), no item sends the     *)
(* loop on to read the transport.                                          *)
HandshakeDecode ==
  /\ pc = "recv"
  /\ isReadable
  /\ ~eof
  /\ LET r == decode(buf) IN
       /\ Decoded(r)
       /\ IF r.tag = "Some" THEN Resolve(ReplyMsg(r.item)) /\ UNCHANGED isReadable
          ELSE IF r.tag = "None"
            THEN /\ isReadable' = FALSE
                 /\ UNCHANGED <<pc, reply, result, error, returned>>
          ELSE Resolve(ReplyErr("decode")) /\ UNCHANGED isReadable
  /\ UNCHANGED <<wire, fed, argVars, sentMsgs, written, eof>>

(* Framed's read loop at the end of the stream (Decoder::decode_eof): one  *)
(* decode call; no item with bytes still buffered is an error, no item     *)
(* with an empty buffer ends the stream.                                   *)
HandshakeDecodeEof ==
  /\ pc = "recv"
  /\ isReadable
  /\ eof
  /\ LET r == decode(buf) IN
       /\ Decoded(r)
       /\ IF r.tag = "Some" THEN Resolve(ReplyMsg(r.item)) /\ UNCHANGED isReadable
          ELSE IF r.tag = "None"
            THEN IF r.src = <<>>
                   THEN Resolve(ReplyNone) /\ isReadable' = FALSE
                   ELSE Resolve(ReplyErr("decode")) /\ UNCHANGED isReadable
          ELSE Resolve(ReplyErr("decode")) /\ UNCHANGED isReadable
  /\ UNCHANGED <<wire, fed, argVars, sentMsgs, written, eof>>

(* Framed's read loop, the buffer not readable: a read of the transport    *)
(* appends the next n bytes of the stream.                                 *)
HandshakeRead(n) ==
  /\ pc = "recv"
  /\ ~isReadable
  /\ n >= 1
  /\ fed + n <= Len(wire)
  /\ buf' = buf \o SubSeq(wire, fed + 1, fed + n)
  /\ fed' = fed + n
  /\ isReadable' = TRUE
  /\ eof' = FALSE
  /\ UNCHANGED <<wire, removed, out, last, sawPartial, cancelled, pc, argVars, sentMsgs, written,
                 reply, result, error, returned>>

HandshakeReadChunk == \E n \in 1..MaxChunk : HandshakeRead(n)

HandshakeReadRest == HandshakeRead(Len(wire) - fed)

(* A read of the transport returns no bytes: the peer closed the stream. *)
HandshakeReadEof ==
  /\ pc = "recv"
  /\ ~isReadable
  /\ ~eof
  /\ eof' = TRUE
  /\ isReadable' = TRUE
  /\ UNCHANGED <<wire, fed, codecVars, pc, argVars, sentMsgs, written, reply, result,
                 error, returned>>

(* A read of the transport fails: next() resolves to the error. *)
HandshakeReadErr ==
  /\ pc = "recv"
  /\ ~isReadable
  /\ Resolve(ReplyErr("read"))
  /\ UNCHANGED <<wire, fed, codecVars, argVars, sentMsgs, written, isReadable, eof>>

HsNext ==
  \/ connect_setup
  \/ connect_tls_setup
  \/ HandshakeSend
  \/ HandshakeDecode
  \/ HandshakeDecodeEof
  \/ HandshakeReadChunk
  \/ HandshakeReadRest
  \/ HandshakeReadEof
  \/ HandshakeReadErr

HsSpec == HsInit /\ [][HsNext]_vars

(* --------------------------------------------------------------------- *)
(* Properties of ClientCodec::decode.                                     *)
(* --------------------------------------------------------------------- *)
(* The state is the one the most recent decode call left: nothing was     *)
(* appended to the buffer since.                                          *)
JustDecoded == last.called /\ last.fedAt = fed

(* The typed messages of the valid frames, written out. *)
M_CONNECTED ==
  Message([type |-> "Connected", version |-> <<"1", ".", "2">>, session |-> None,
           server |-> None, heartbeat |-> None], <<>>)
M_ERROR ==
  Message([type |-> "Error",
           message |-> Some(<<"b", "a", "d", " ", "l", "o", "g", "i", "n">>),
           body |-> <<>>], <<>>)
M_RECEIPT == Message([type |-> "Receipt", receipt_id |-> <<"7">>], <<>>)
M_MESSAGE_CL ==
  Message([type |-> "Message", destination |-> <<"q">>, message_id |-> <<"1">>,
           subscription |-> <<"0">>, body |-> <<"a", NUL, "b">>], <<>>)
M_MESSAGE ==
  Message([type |-> "Message", destination |-> <<"q">>, message_id |-> <<"1">>,
           subscription |-> <<"0">>, body |-> <<"h", "i">>], <<<<<<"x">>, <<"y">>>>>>)

Expected(f) ==
  CASE f = F_CONNECTED -> M_CONNECTED
    [] f = F_ERROR -> M_ERROR
    [] f = F_RECEIPT -> M_RECEIPT
    [] f = F_MESSAGE_CL -> M_MESSAGE_CL
    [] f = F_MESSAGE -> M_MESSAGE

(* C1: a decode call on a buffer the frame parser finds incomplete returns *)
(* Ok(None), not an error, and leaves the buffer's contents and length     *)
(* exactly as they were.                                                   *)
C1_IncompleteLeavesBuffer ==
  (JustDecoded /\ parse_frame(last.before).kind = "Incomplete") =>
    /\ last.tag = "None"
    /\ buf = last.before
    /\ Len(buf) = Len(last.before)
    /\ last.offset = 0

C1_Witness ==
  /\ JustDecoded
  /\ parse_frame(last.before).kind = "Incomplete"
  /\ Len(last.before) > 1
  /\ last.tag = "None"

(* C2: when the frame parser succeeds, decode removes from the front of    *)
(* the buffer exactly the bytes up to the start of the parser's remainder, *)
(* once, and the bytes after that point stay, unchanged and in order.      *)
C2_AdvanceByConsumed ==
  (JustDecoded /\ parse_frame(last.before).kind = "Ok") =>
    LET remain == parse_frame(last.before).remain
        consumed == Len(last.before) - Len(remain)
    IN /\ last.offset = consumed
       /\ buf = remain
       /\ last.before = Take(last.before, consumed) \o buf
       /\ Len(removed) + Len(buf) = fed

C2_Witness ==
  /\ JustDecoded
  /\ parse_frame(last.before).kind = "Ok"
  /\ last.offset > 0
  /\ buf # <<>>
  /\ buf = Drop(last.before, last.offset)

(* C3: with the concatenation of two valid frames buffered as one chunk,   *)
(* the first decode call returns the first message and leaves the second   *)
(* frame's bytes buffered, and the next call returns the second message:   *)
(* one frame per call, in wire order.                                      *)
C3_TwoFramesTwoCalls ==
  \A f \in ValidFrames, g \in ValidSecondFrames :
    /\ (JustDecoded /\ last.before = f \o g /\ last.outBefore = <<>>) =>
         /\ last.tag = "Some"
         /\ last.item = Expected(f)
         /\ out = <<Expected(f)>>
         /\ buf = g
    /\ (JustDecoded /\ wire = f \o g /\ last.before = g /\ last.outBefore = <<Expected(f)>>) =>
         /\ last.tag = "Some"
         /\ last.item = Expected(g)
         /\ out = <<Expected(f), Expected(g)>>
         /\ buf = <<>>

C3_Witness ==
  /\ JustDecoded
  /\ wire = F_MESSAGE_CL \o F_RECEIPT
  /\ removed = wire
  /\ last.before = F_RECEIPT
  /\ last.outBefore = <<M_MESSAGE_CL>>
  /\ out = <<M_MESSAGE_CL, M_RECEIPT>>
  /\ ~sawPartial

RECURSIVE DecodeLoop(_)
(* The messages the decode loop yields from a buffer holding b, decode    *)
(* being called until it returns no item.                                 *)
DecodeLoop(b) ==
  LET r == decode(b) IN
    IF r.tag = "Some" THEN <<r.item>> \o DecodeLoop(r.src) ELSE <<>>

(* The decode loop has run to its end on everything the peer sent. *)
Drained == JustDecoded /\ fed = Len(wire) /\ last.tag = "None"

(* C4: for a valid byte stream, whatever the chunks it arrives in, the     *)
(* decode loop yields the messages it yields when the whole stream is      *)
(* appended as one chunk.                                                  *)
C4_ChunkingIrrelevant ==
  (wire \in ValidWires /\ Drained) => out = DecodeLoop(wire)

C4_Witness ==
  /\ wire \in TwoFrameWires
  /\ Drained
  /\ sawPartial
  /\ Len(out) = 2

(* C5: decode on a strict prefix of a valid frame yields no message and    *)
(* consumes nothing; once the rest of the frame is appended, decode yields *)
(* the complete message.                                                   *)
C5_PartialFrameSafety ==
  (JustDecoded /\ wire \in ValidFrames) =>
    /\ (\E k \in 0..(Len(wire) - 1) : last.before = Take(wire, k)) =>
         (last.tag = "None" /\ buf = last.before /\ out = last.outBefore)
    /\ (last.before = wire) =>
         (last.tag = "Some" /\ last.item = Expected(wire) /\ buf = <<>>)

C5_Witness ==
  /\ JustDecoded
  /\ wire \in ValidFrames
  /\ sawPartial
  /\ last.before = wire
  /\ last.tag = "Some"

(* C9: when the buffered bytes violate the framing grammar, decode fails;  *)
(* it returns no message and removes no byte of the buffer.                *)
C9_MalformedFails ==
  (JustDecoded /\ parse_frame(last.before).kind = "Error") =>
    /\ last.tag = "ParseFailed"
    /\ last.offset = 0
    /\ buf = last.before
    /\ out = last.outBefore

C9_Witness ==
  /\ JustDecoded
  /\ last.before = F_BADHEADER
  /\ last.tag = "ParseFailed"
  /\ buf = F_BADHEADER

(* C10: for a well-framed frame whose command is no inbound command or     *)
(* that lacks a required header, decode fails: it returns neither a        *)
(* message nor Ok(None).                                                   *)
C10_InvalidMessageFails ==
  (/\ JustDecoded
   /\ parse_frame(last.before).kind = "Ok"
   /\ ~from_frame(parse_frame(last.before).frame).ok) =>
    /\ last.tag = "ConvFailed"
    /\ out = last.outBefore

C10_Witness ==
  /\ JustDecoded
  /\ last.before \in InvalidMessageFrames
  /\ last.tag = "ConvFailed"

(* --------------------------------------------------------------------- *)
(* Properties of the handshake.                                           *)
(* --------------------------------------------------------------------- *)
(* The Connect message was handed to the transport once and all of its    *)
(* bytes were written.                                                    *)
ConnectWritten ==
  /\ Len(sentMsgs) = 1
  /\ written = encode(sentMsgs[1], <<>>)

(* C6: the handshake succeeds, and connect / connect_tls return the        *)
(* transport, exactly when the first message decoded after Connect was     *)
(* sent is Connected; a server answering CONNECTED version:1.2 makes it    *)
(* succeed.                                                                *)
C6_SuccessIffConnected ==
  /\ (result = "Ok") <=>
       (pc = "done" /\ ConnectWritten /\ out # <<>> /\ out[1].content.type = "Connected")
  /\ returned <=> (result = "Ok")
  /\ (last.called /\ wire = F_CONNECTED /\ last.before = F_CONNECTED) =>
       (result = "Ok" /\ returned /\ reply = ReplyMsg(M_CONNECTED))

C6_Witness ==
  /\ pc = "done"
  /\ wire = F_CONNECTED
  /\ last.before = F_CONNECTED
  /\ out = <<M_CONNECTED>>
  /\ result = "Ok"
  /\ returned

(* C7: a first reply other than Connected, or the end of the stream before *)
(* any reply, makes the handshake fail, and the transport is not returned. *)
C7_RejectedOrClosedFails ==
  /\ (pc = "done" /\ reply.kind = "msg" /\ reply.msg.val.content.type # "Connected") =>
       (result = "Err" /\ error = "unexpected reply" /\ ~returned)
  /\ (pc = "done" /\ eof /\ out = <<>>) => (result = "Err" /\ ~returned)
  /\ (pc = "done" /\ reply.kind = "none") =>
       (result = "Err" /\ error = "unexpected reply" /\ ~returned)
  /\ (last.called /\ wire = F_ERROR /\ last.before = F_ERROR) =>
       (reply = ReplyMsg(M_ERROR) /\ result = "Err" /\ ~returned)

C7_Witness ==
  /\ pc = "done"
  /\ wire = F_ERROR
  /\ reply = ReplyMsg(M_ERROR)
  /\ result = "Err"
  /\ ~returned

C7_WitnessClosed ==
  /\ pc = "done"
  /\ reply.kind = "none"
  /\ eof
  /\ result = "Err"

(* Reading the reply has begun: the transport was read, decode was called, *)
(* or next() resolved.                                                     *)
ReadBegun ==
  fed > 0 \/ last.called \/ eof \/ isReadable \/ buf # <<>> \/ reply.kind # "pending"

(* C8: the reply is not read before the Connect message is fully written.  *)
C8_SendBeforeReceive == ReadBegun => ConnectWritten

C8_Witness ==
  /\ pc = "recv"
  /\ ReadBegun
  /\ fed > 0
  /\ ConnectWritten

(* --------------------------------------------------------------------- *)
(* Outbound messages and ClientCodec::encode on the outgoing buffer.      *)
(* --------------------------------------------------------------------- *)
ToConnect(host, login_, passcode_, heartbeat) ==
  [type |-> "Connect", accept_version |-> VERSION_1_2, host |-> host, login |-> login_,
   passcode |-> passcode_, heartbeat |-> heartbeat]
ToSend(destination, transaction, body) ==
  [type |-> "Send", destination |-> destination, transaction |-> transaction, body |-> body]
ToSubscribe(destination, id, ack) ==
  [type |-> "Subscribe", destination |-> destination, id |-> id, ack |-> ack]
ToUnsubscribe(id) == [type |-> "Unsubscribe", id |-> id]
ToAck(id, transaction) == [type |-> "Ack", id |-> id, transaction |-> transaction]
ToNack(id, transaction) == [type |-> "Nack", id |-> id, transaction |-> transaction]
ToBegin(transaction) == [type |-> "Begin", transaction |-> transaction]
ToCommit(transaction) == [type |-> "Commit", transaction |-> transaction]
ToAbort(transaction) == [type |-> "Abort", transaction |-> transaction]
ToDisconnect(receipt) == [type |-> "Disconnect", receipt |-> receipt]

(* subscribe(dest, id): the convenience constructor; From<ToServer> gives  *)
(* a message without extra headers                                         *)
subscribe(dest, id) == Message(ToSubscribe(dest, id, None), <<>>)

(* a value holding every byte the wire format escapes, and a NUL-free tail *)
V_TRICKY == <<"a", COLON, BACKSLASH, LF, "n", BACKSLASH>>
V_CLIENT == <<"c", "l", "i", "e", "n", "t">>
X_ONE == <<<<<<"x">>, <<"1">>>>>>
X_DUP == <<<<<<"x">>, <<"2">>>>, <<<<"k", COLON>>, V_TRICKY>>, <<<<"x">>, <<"1">>>>>>

(* Messages whose extra headers carry no name of a typed header of the   *)
(* variant, nor content-length.                                           *)
OutMessages ==
  { Message(ToConnect(ADDR_A, None, None, None), <<>>),
    Message(ToConnect(ADDR_B, Some(<<"u">>), Some(<<"p", "w">>), Some(<<10, 0>>)), X_ONE),
    Message(ToConnect(ADDR_A, None, Some(<<>>), Some(<<0, 305>>)), <<>>),
    Message(ToSend(<<"q">>, None, None), <<>>),
    Message(ToSend(<<"q">>, Some(<<"t">>), Some(<<"h", "i">>)), X_DUP),
    Message(ToSend(V_TRICKY, None, Some(<<"a", NUL, "b", LF, NUL>>)), <<>>),
    Message(ToSend(<<"q">>, None, Some(<<>>)), X_ONE),
    subscribe(<<"q">>, <<"7">>),
    Message(ToSubscribe(<<"q">>, <<"7">>, Some(V_CLIENT)), X_DUP),
    Message(ToUnsubscribe(<<"7">>), <<>>),
    Message(ToUnsubscribe(V_TRICKY), X_ONE),
    Message(ToAck(<<"1">>, None), <<>>),
    Message(ToAck(<<"1">>, Some(<<"t">>)), X_ONE),
    Message(ToNack(<<"1">>, None), X_DUP),
    Message(ToNack(<<"1">>, Some(<<"t">>)), <<>>),
    Message(ToBegin(<<"t">>), <<>>),
    Message(ToCommit(<<"t">>), X_ONE),
    Message(ToAbort(<<"t">>), <<>>),
    Message(ToDisconnect(None), <<>>),
    Message(ToDisconnect(Some(<<"r">>)), X_DUP) }

(* Messages with an extra header named like a typed header of the        *)
(* variant, or content-length.                                            *)
ShadowMessages ==
  { Message(ToConnect(ADDR_A, None, None, None), <<<<H_login, <<"u">>>>>>),
    Message(ToSubscribe(<<"q">>, <<"7">>, None), <<<<H_id, <<"9">>>>>>),
    Message(ToDisconnect(None), <<<<H_receipt, <<"r">>>>>>),
    Message(ToBegin(<<"t">>), <<<<H_content_length, <<"3">>>>>>) }

AllOutMessages == OutMessages \cup ShadowMessages

(* How many messages are encoded onto one outgoing buffer. *)
MaxEncodes == 2

EncInit ==
  /\ wire = <<>>
  /\ fed = 0
  /\ buf = <<>>
  /\ removed = <<>>
  /\ out = <<>>
  /\ last = NoCall
  /\ sawPartial = FALSE
  /\ cancelled = FALSE
  /\ pc = "encode"
  /\ tls = FALSE
  /\ address = <<>>
  /\ login = None
  /\ passcode = None
  /\ sentMsgs = <<>>
  /\ written = <<>>
  /\ isReadable = FALSE
  /\ eof = FALSE
  /\ reply = NoReply
  /\ result = "none"
  /\ error = ""
  /\ returned = FALSE

(* One call of ClientCodec::encode; written is the outgoing buffer dst. *)
Encode ==
  /\ pc = "encode"
  /\ Len(sentMsgs) < MaxEncodes
  /\ \E item \in AllOutMessages :
       /\ written' = encode(item, written)
       /\ result' = encode_returns(item)
       /\ sentMsgs' = Append(sentMsgs, item)
  /\ UNCHANGED <<wire, fed, codecVars, pc, argVars, isReadable, eof, reply, error, returned>>

EncNext == Encode

EncSpec == EncInit /\ [][EncNext]_vars

(* The bytes of SUBSCRIBE destination:q id:7, written out. *)
W_SUBSCRIBE ==
  <<"S", "U", "B", "S", "C", "R", "I", "B", "E", LF, "d", "e", "s", "t", "i", "n", "a", "t", "i", "o", "n", ":", "q", LF, "i", "d", ":", "7", LF, LF, NUL>>

(* C11: encode returns Ok for every outbound message, and all it does to   *)
(* the outgoing buffer is append the serialized frame: the bytes already   *)
(* there stay as they are, in front of it.                                 *)
C11_EncodeAppends ==
  [][(sentMsgs' # sentMsgs) =>
       LET item == sentMsgs'[Len(sentMsgs')] IN
         /\ result' = "Ok"
         /\ Len(sentMsgs') = Len(sentMsgs) + 1
         /\ Take(written', Len(written)) = written
         /\ Drop(written', Len(written)) = serialize(to_frame(item), <<>>)
         /\ (item = subscribe(<<"q">>, <<"7">>)) => (Drop(written', Len(written)) = W_SUBSCRIBE)
    ]_vars

C11_Witness ==
  /\ pc = "encode"
  /\ Len(sentMsgs) = 2
  /\ sentMsgs[2] = subscribe(<<"q">>, <<"7">>)
  /\ sentMsgs[1] # sentMsgs[2]
  /\ result = "Ok"
  /\ written = serialize(to_frame(sentMsgs[1]), <<>>) \o W_SUBSCRIBE

(* --------------------------------------------------------------------- *)
(* Round trip: an encoded message fed back through the decode path.       *)
(* --------------------------------------------------------------------- *)
(* heart-beat "send,receive" read back as the pair *)
ParseHeartbeat(opt) ==
  IF opt.some
    THEN Some(<<ParseNat(Take(opt.val, IndexOf(opt.val, COMMA) - 1)),
                ParseNat(Drop(opt.val, IndexOf(opt.val, COMMA)))>>)
    ELSE None

(* a body is present when the frame declares its length or carries bytes *)
OptBody(frame) ==
  IF get_header(frame.headers, H_content_length).some \/ frame.body # <<>>
    THEN Some(frame.body)
    ELSE None

(* The typed reconstruction of a client frame: the typed fields from the   *)
(* first header of each name, every other header an extra header.          *)
to_server_msg(frame) ==
  LET h == frame.headers
      eh(n) == get_header(h, n)
      cmd == frame.command
  IN
    CASE cmd = CMD_CONNECT /\ eh(H_accept_version).some /\ eh(H_host).some ->
      ConvOk(Message([type |-> "Connect", accept_version |-> eh(H_accept_version).val,
                      host |-> eh(H_host).val, login |-> eh(H_login),
                      passcode |-> eh(H_passcode),
                      heartbeat |-> ParseHeartbeat(eh(H_heart_beat))],
                     ExtraHeaders(h, {H_accept_version, H_host, H_login, H_passcode,
                                      H_heart_beat})))
    [] cmd = CMD_SEND /\ eh(H_destination).some ->
      ConvOk(Message(ToSend(eh(H_destination).val, eh(H_transaction), OptBody(frame)),
                     ExtraHeaders(h, {H_destination, H_transaction, H_content_length})))
    [] cmd = CMD_SUBSCRIBE /\ eh(H_destination).some /\ eh(H_id).some ->
      ConvOk(Message(ToSubscribe(eh(H_destination).val, eh(H_id).val, eh(H_ack)),
                     ExtraHeaders(h, {H_destination, H_id, H_ack})))
    [] cmd = CMD_UNSUBSCRIBE /\ eh(H_id).some ->
      ConvOk(Message(ToUnsubscribe(eh(H_id).val), ExtraHeaders(h, {H_id})))
    [] cmd = CMD_ACK /\ eh(H_id).some ->
      ConvOk(Message(ToAck(eh(H_id).val, eh(H_transaction)),
                     ExtraHeaders(h, {H_id, H_transaction})))
    [] cmd = CMD_NACK /\ eh(H_id).some ->
      ConvOk(Message(ToNack(eh(H_id).val, eh(H_transaction)),
                     ExtraHeaders(h, {H_id, H_transaction})))
    [] cmd = CMD_BEGIN /\ eh(H_transaction).some ->
      ConvOk(Message(ToBegin(eh(H_transaction).val), ExtraHeaders(h, {H_transaction})))
    [] cmd = CMD_COMMIT /\ eh(H_transaction).some ->
      ConvOk(Message(ToCommit(eh(H_transaction).val), ExtraHeaders(h, {H_transaction})))
    [] cmd = CMD_ABORT /\ eh(H_transaction).some ->
      ConvOk(Message(ToAbort(eh(H_transaction).val), ExtraHeaders(h, {H_transaction})))
    [] cmd = CMD_DISCONNECT ->
      ConvOk(Message(ToDisconnect(eh(H_receipt)), ExtraHeaders(h, {H_receipt})))
    [] OTHER -> ConvErr

(* The frame at the front of src, reconstructed; nothing while the parser  *)
(* has no whole frame.                                                     *)
Reassembled(src) ==
  IF parse_frame(src).kind = "Ok" THEN to_server_msg(parse_frame(src).frame) ELSE ConvErr

RtInit ==
  /\ wire = <<>>
  /\ fed = 0
  /\ buf = <<>>
  /\ removed = <<>>
  /\ out = <<>>
  /\ last = NoCall
  /\ sawPartial = FALSE
  /\ cancelled = FALSE
  /\ pc = "rt"
  /\ tls = FALSE
  /\ address = <<>>
  /\ login = None
  /\ passcode = None
  /\ sentMsgs = <<>>
  /\ written = <<>>
  /\ isReadable = FALSE
  /\ eof = FALSE
  /\ reply = NoReply
  /\ result = "none"
  /\ error = ""
  /\ returned = FALSE

(* One message encoded onto an empty buffer; its bytes are the stream the  *)
(* harness feeds back.                                                     *)
RtEncode ==
  /\ pc = "rt"
  /\ sentMsgs = <<>>
  /\ \E item \in AllOutMessages :
       /\ written' = encode(item, <<>>)
       /\ wire' = encode(item, <<>>)
       /\ result' = encode_returns(item)
       /\ sentMsgs' = <<item>>
  /\ UNCHANGED <<fed, codecVars, pc, argVars, isReadable, eof, reply, error, returned>>

(* The harness appends the next n bytes of the stream to the buffer. *)
RtFeed(n) ==
  /\ pc = "rt"
  /\ sentMsgs # <<>>
  /\ n >= 1
  /\ fed + n <= Len(wire)
  /\ buf' = buf \o SubSeq(wire, fed + 1, fed + n)
  /\ fed' = fed + n
  /\ UNCHANGED <<wire, removed, out, last, sawPartial, cancelled, hsVars>>

RtFeedChunk == \E n \in 1..MaxChunk : RtFeed(n)

RtFeedRest == RtFeed(Len(wire) - fed)

(* One call of ClientCodec::decode on the buffer; out collects the typed   *)
(* reconstruction of the frame the call parsed.                            *)
RtDecode ==
  /\ pc = "rt"
  /\ sentMsgs # <<>>
  /\ buf' = decode(buf).src
  /\ removed' = removed \o Take(buf, decode(buf).offset)
  /\ out' = IF Reassembled(buf).ok THEN Append(out, Reassembled(buf).msg) ELSE out
  /\ last' = [called |-> TRUE, fedAt |-> fed, before |-> buf, outBefore |-> out,
              tag |-> decode(buf).tag, item |-> decode(buf).item,
              offset |-> decode(buf).offset]
  /\ sawPartial' = (sawPartial \/ (decode(buf).tag = "None" /\ buf # <<>>))
  /\ UNCHANGED <<wire, fed, cancelled, hsVars>>

RtNext == RtEncode \/ RtFeedChunk \/ RtFeedRest \/ RtDecode

RtSpec == RtInit /\ [][RtNext]_vars

(* the whole stream was fed and decode has found nothing more in the buffer *)
RtDrained ==
  /\ pc = "rt"
  /\ sentMsgs # <<>>
  /\ fed = Len(wire)
  /\ JustDecoded
  /\ last.tag = "None"

C13_NoRetry ==
  [][/\ Len(sentMsgs') <= 1
     /\ Len(out') <= 1
     /\ (pc' \in {"recv", "done"} /\ error' # "setup") =>
          (Len(sentMsgs') = 1 /\ sentMsgs'[1].content.type = "Connect")
     /\ (reply'.kind # "pending") => (pc' = "done")
     /\ (pc = "done") => UNCHANGED vars
    ]_vars

(* a rejected handshake with an acceptance already buffered behind the    *)
(* rejection: it is never decoded                                         *)
C13_Witness ==
  /\ pc = "done"
  /\ result = "Err"
  /\ error = "unexpected reply"
  /\ wire = F_ERROR \o F_CONNECTED
  /\ fed = Len(wire)
  /\ buf = F_CONNECTED
  /\ out = <<M_ERROR>>
  /\ Len(sentMsgs) = 1

(* C14: every message the handshake hands to the transport is a Connect   *)
(* with accept_version "1.2", the caller's address as host, the caller's   *)
(* login and passcode as given (absent when not given), no heartbeat and   *)
(* no extra headers.                                                       *)
C14_ConnectFields ==
  \A i \in 1..Len(sentMsgs) :
    /\ sentMsgs[i].content.type = "Connect"
    /\ sentMsgs[i].content.accept_version = <<"1", ".", "2">>
    /\ sentMsgs[i].content.host = address
    /\ sentMsgs[i].content.login = login
    /\ sentMsgs[i].content.passcode = passcode
    /\ sentMsgs[i].content.heartbeat = None
    /\ sentMsgs[i].extra_headers = <<>>

(* connect_tls with a login and a passcode, the Connect written in full *)
C14_Witness ==
  /\ tls
  /\ pc = "recv"
  /\ address = ADDR_B
  /\ login = Some(<<"u">>)
  /\ passcode = Some(<<"p", "w">>)
  /\ Len(sentMsgs) = 1
  /\ sentMsgs[1].content.host = ADDR_B
  /\ sentMsgs[1].content.passcode = Some(<<"p", "w">>)
  /\ ConnectWritten

(* connect without login or passcode *)
C14_WitnessAnonymous ==
  /\ ~tls
  /\ pc = "recv"
  /\ login = None
  /\ passcode = None
  /\ Len(sentMsgs) = 1
  /\ sentMsgs[1].content.login = None
  /\ sentMsgs[1].content.passcode = None

(* C15: a transport failure is what the handshake returns.  A send that   *)
(* the transport did not take in full ends connect with the send error,    *)
(* before any byte is read or decoded; a failed read and a failed decode   *)
(* of the reply end it with that error; in each case the transport is not  *)
(* returned to the caller, and nothing happens afterwards.                 *)
C15_TransportErrorPropagates ==
  [][/\ (/\ sentMsgs' # sentMsgs
         /\ written' # written \o encode(sentMsgs'[Len(sentMsgs')], <<>>)) =>
          (/\ pc' = "done" /\ result' = "Err" /\ error' = "send" /\ ~returned'
           /\ reply' = NoReply /\ ~last'.called /\ fed' = 0)
     /\ (last' # last /\ last'.tag \in {"ParseFailed", "ConvFailed"}) =>
          (pc' = "done" /\ result' = "Err" /\ error' = "decode" /\ ~returned')
     /\ (reply'.kind = "err") =>
          (pc' = "done" /\ result' = "Err" /\ error' = reply'.cause /\ ~returned')
     /\ (error \in {"send", "read", "decode"}) => UNCHANGED vars
    ]_vars

(* the transport failed after taking part of the Connect frame *)
C15_Witness ==
  /\ pc = "done"
  /\ result = "Err"
  /\ error = "send"
  /\ Len(sentMsgs) = 1
  /\ written # <<>>
  /\ Len(written) < Len(encode(sentMsgs[1], <<>>))
  /\ fed = 0
  /\ ~last.called
  /\ ~returned

(* the read of the reply failed after part of a frame had arrived *)
C15_WitnessRead ==
  /\ pc = "done"
  /\ result = "Err"
  /\ error = "read"
  /\ reply = ReplyErr("read")
  /\ sawPartial
  /\ ~returned

(* the reply did not parse *)
C15_WitnessDecode ==
  /\ pc = "done"
  /\ result = "Err"
  /\ error = "decode"
  /\ last.tag = "ParseFailed"
  /\ wire = F_BADHEADER
  /\ ~returned

(* C16: whichever of client_handshake and client_handshake_tls runs, the   *)
(* Connect it sends is the one either of them builds from these arguments, *)
(* and its outcome is the one either of them gives for the same transport  *)
(* events: Err when the send, the read or the decode failed, and otherwise *)
(* what either makes of the reply or of the end of the stream.             *)
C16_PlainAndTlsAgree ==
  /\ \A i \in 1..Len(sentMsgs) :
       /\ sentMsgs[i] = client_handshake_connect(address, login, passcode)
       /\ sentMsgs[i] = client_handshake_tls_connect(address, login, passcode)
  /\ (pc = "done" /\ reply.kind \in {"msg", "none"}) =>
       /\ result = client_handshake_reply(reply.msg)
       /\ result = client_handshake_tls_reply(reply.msg)
  /\ (pc = "done" /\ (reply.kind = "err" \/ error = "send")) => (result = "Err")
  /\ (pc = "done" /\ error # "setup") =>
       (result \in {"Ok", "Err"} /\ (reply.kind = "pending") = (error = "send"))

(* the secure-channel handshake rejected by an ERROR reply *)
C16_Witness ==
  /\ tls
  /\ pc = "done"
  /\ reply = ReplyMsg(M_ERROR)
  /\ result = "Err"
  /\ client_handshake_reply(reply.msg) = "Err"
  /\ sentMsgs = <<client_handshake_connect(address, login, passcode)>>

(* the plain handshake accepted *)
C16_WitnessPlain ==
  /\ ~tls
  /\ pc = "done"
  /\ reply = ReplyMsg(M_CONNECTED)
  /\ result = "Ok"
  /\ client_handshake_tls_reply(reply.msg) = "Ok"
  /\ sentMsgs = <<client_handshake_tls_connect(address, login, passcode)>>

(* --------------------------------------------------------------------- *)
(* More properties of ClientCodec::decode.                                *)
(* --------------------------------------------------------------------- *)
(* C17: abandoning a receive that waits on a partly received frame leaves  *)
(* the buffer as it was, the partial bytes in it; from then on the buffer  *)
(* is still the unconsumed part of what was received, and once the rest    *)
(* has arrived the decode loop yields the messages it yields from the      *)
(* whole stream with no receive abandoned.                                 *)
C17_CancelKeepsBuffer ==
  [][/\ (cancelled' /\ ~cancelled) =>
          (/\ buf # <<>>
           /\ parse_frame(buf).kind = "Incomplete"
           /\ buf' = buf
           /\ removed' = removed
           /\ out' = out)
     /\ cancelled' =>
          (/\ removed' \o buf' = Take(wire', fed')
           /\ (wire' \in ValidWires /\ Drained') => (out' = DecodeLoop(wire')))
    ]_vars

(* a receive abandoned inside the second frame, retried, and the stream    *)
(* read to its end                                                         *)
C17_Witness ==
  /\ cancelled
  /\ wire = F_RECEIPT \o F_MESSAGE_CL
  /\ Drained
  /\ out = <<M_RECEIPT, M_MESSAGE_CL>>
  /\ buf = <<>>

(* C18: when the parser yields a frame that does not convert to a server  *)
(* message, the decode call that returns the error has removed that        *)
(* frame's bytes from the front of the buffer; the next call starts at     *)
(* the frame behind it, so a valid frame following an invalid one is       *)
(* decoded.                                                                *)
C18_ConvErrorAdvances ==
  /\ (JustDecoded /\ parse_frame(last.before).kind = "Ok"
        /\ ~from_frame(parse_frame(last.before).frame).ok) =>
       /\ last.tag = "ConvFailed"
       /\ last.offset > 0
       /\ last.offset = Len(last.before) - Len(parse_frame(last.before).remain)
       /\ buf = Drop(last.before, last.offset)
       /\ out = last.outBefore
  /\ \A f \in InvalidMessageFrames :
       /\ (JustDecoded /\ wire = f \o F_RECEIPT /\ fed = Len(wire)
             /\ last.before = wire) => (buf = F_RECEIPT)
       /\ (wire = f \o F_RECEIPT /\ Drained) => (out = <<M_RECEIPT>> /\ removed = wire)

(* a SEND frame and a RECEIPT frame buffered together: the call after the  *)
(* failing one returned the receipt                                        *)
C18_Witness ==
  /\ JustDecoded
  /\ wire = F_SEND \o F_RECEIPT
  /\ last.before = F_RECEIPT
  /\ last.outBefore = <<>>
  /\ last.tag = "Some"
  /\ out = <<M_RECEIPT>>
  /\ removed = wire
  /\ ~sawPartial

(* C19: at every point the bytes decode has removed, followed by the bytes *)
(* in the buffer, are the bytes received so far, in order; a decode call   *)
(* removes no more than the buffer held, and what it leaves is the rest    *)
(* of what the buffer held.                                                *)
C19_StreamConservation ==
  /\ removed \o buf = Take(wire, fed)
  /\ Len(removed) + Len(buf) = fed
  /\ JustDecoded =>
       /\ last.offset <= Len(last.before)
       /\ buf = Drop(last.before, last.offset)
       /\ Len(buf) = Len(last.before) - last.offset

(* two frames arriving in pieces, the first consumed and part of the       *)
(* second buffered                                                         *)
C19_Witness ==
  /\ wire \in TwoFrameWires
  /\ sawPartial
  /\ removed # <<>>
  /\ buf # <<>>
  /\ fed < Len(wire)
  /\ Len(out) = 1
  /\ ~JustDecoded

(* How many decode calls the loop below may make at most. *)
MaxCalls == 4

RECURSIVE DecodeCalls(_, _)
(* The decode loop on a buffer holding b with nothing appended: how many   *)
(* calls it makes up to the first that returns no message, and what that   *)
(* call returned; "Running" when calls calls were not enough.              *)
DecodeCalls(b, calls) ==
  IF calls = 0 THEN [calls |-> 0, tag |-> "Running"]
  ELSE IF decode(b).tag = "Some"
    THEN [calls |-> 1 + DecodeCalls(decode(b).src, calls - 1).calls,
          tag |-> DecodeCalls(decode(b).src, calls - 1).tag]
    ELSE [calls |-> 1, tag |-> decode(b).tag]

(* the number of frames in a valid stream *)
FrameCount(w) == IF w \in ValidFrames \cup { F_RECEIPT \o <<LF>> } THEN 1 ELSE 2

(* C20: a decode call that returns a message has removed at least one byte *)
(* and left the buffer shorter; so the decode loop on a buffered stream of *)
(* valid frames, nothing being appended, comes to "no item" within one     *)
(* call per frame plus one.                                                *)
C20_DecodeLoopProgress ==
  /\ (JustDecoded /\ last.tag = "Some") =>
       /\ last.offset >= 1
       /\ Len(buf) < Len(last.before)
       /\ Len(buf) = Len(last.before) - last.offset
  /\ (wire \in ValidWires /\ buf = wire) =>
       /\ DecodeCalls(buf, MaxCalls).tag = "None"
       /\ DecodeCalls(buf, MaxCalls).calls <= FrameCount(wire) + 1
  /\ (wire \in ValidWires /\ Drained) =>
       (Len(out) = FrameCount(wire))

(* two frames buffered whole before the first decode call *)
C20_Witness ==
  /\ wire = F_ERROR \o F_MESSAGE_CL
  /\ buf = wire
  /\ fed = Len(wire)
  /\ ~last.called
  /\ DecodeCalls(buf, MaxCalls) = [calls |-> 3, tag |-> "None"]

(* the loop run to its end on them *)
C20_WitnessDrained ==
  /\ wire = F_ERROR \o F_MESSAGE_CL
  /\ Drained
  /\ ~sawPartial
  /\ Len(out) = 2
  /\ last.before = <<>>

====
